---- MODULE Spec2Model ----
(***************************************************************************)
(* Model of the ETL pipeline of etl_pipeline.py (class ETLPipeline).       *)
(*                                                                         *)
(* Text is modelled character by character: a Python str is a sequence of  *)
(* one-character strings.  Regular expressions, str.replace, str.split,    *)
(* str.strip and json.loads are modelled by what they compute on such      *)
(* sequences.  A Python dict is an ordered sequence of [k, v] pairs with   *)
(* distinct keys.  Every Python value is a record [kind, n, s, items] so   *)
(* that any two values can be compared.                                    *)
(***************************************************************************)
EXTENDS Integers, Sequences, FiniteSets, TLC

(***************************************************************************)
(* Characters                                                              *)
(***************************************************************************)

\* The characters of the model in code point order (Python compares and
\* sorts str values by code point).
AsciiOrder ==
  << "\n", " ", "!", "\"", "+", ",", "/",
     "0", "1", "2", "3", "4", "5", "6", "7", "8", "9",
     ":", ";", "<", "=", ">",
     "A", "B", "C", "D", "E", "F", "G", "H", "I", "J", "K", "L", "M",
     "N", "O", "P", "Q", "R", "S", "T", "U", "V", "W", "X", "Y", "Z",
     "[", "]", "_",
     "a", "b", "c", "d", "e", "f", "g", "h", "i", "j", "k", "l", "m",
     "n", "o", "p", "q", "r", "s", "t", "u", "v", "w", "x", "y", "z",
     "{", "}" >>

SeqToSet(q) == { q[i] : i \in 1..Len(q) }

Code(c) == CHOOSE i \in 1..Len(AsciiOrder) : AsciiOrder[i] = c

UpperChars == { AsciiOrder[i] : i \in Code("A")..Code("Z") }
LowerChars == { AsciiOrder[i] : i \in Code("a")..Code("z") }
DigitChars == { AsciiOrder[i] : i \in Code("0")..Code("9") }

IsDigit(c) == c \in DigitChars

\* re.IGNORECASE compares characters after case folding.
LowerOf ==
  [c \in SeqToSet(AsciiOrder) |->
     IF c \in UpperChars THEN AsciiOrder[Code(c) - Code("A") + Code("a")] ELSE c]
Lower(c) == LowerOf[c]

\* str.strip() and str.split() treat these as whitespace.
IsSpace(c) == c \in {" ", "\n"}

\* The character class [A-Za-z0-9+/] of the base64 patterns.
B64Chars == UpperChars \cup LowerChars \cup DigitChars \cup {"+", "/"}

(***************************************************************************)
(* Strings                                                                 *)
(***************************************************************************)

Min(a, b) == IF a < b THEN a ELSE b

\* s[i:] and s[:n] of Python, with 1-based i.
From(s, i) == SubSeq(s, i, Len(s))
Take(s, n) == SubSeq(s, 1, Min(n, Len(s)))

\* Does p occur in s at position i?
MatchAt(s, p, i) ==
  /\ i >= 1
  /\ i + Len(p) - 1 <= Len(s)
  /\ \A j \in 1..Len(p) : s[i + j - 1] = p[j]

\* The same, ignoring case (re.IGNORECASE).
MatchAtNoCase(s, p, i) ==
  /\ i >= 1
  /\ i + Len(p) - 1 <= Len(s)
  /\ \A j \in 1..Len(p) : Lower(s[i + j - 1]) = Lower(p[j])

\* str.find(p, i): the first position >= i where p occurs, 0 when none.
Find(s, p, i) ==
  LET hits == { k \in i..(Len(s) - Len(p) + 1) : MatchAt(s, p, k) }
  IN  IF hits = {} THEN 0 ELSE CHOOSE k \in hits : \A m \in hits : k <= m

FindNoCase(s, p, i) ==
  LET hits == { k \in i..(Len(s) - Len(p) + 1) : MatchAtNoCase(s, p, k) }
  IN  IF hits = {} THEN 0 ELSE CHOOSE k \in hits : \A m \in hits : k <= m

\* The first position >= i whose character is c, 0 when none.
FindChar(s, c, i) == Find(s, <<c>>, i)

\* Variant: str.replace(old, '', 1), only the first occurrence goes.
RemoveFirst(s, old) ==
  LET k == Find(s, old, 1)
  IN  IF k = 0 THEN s ELSE SubSeq(s, 1, k - 1) \o From(s, k + Len(old))

\* str.replace(old, ''): every non-overlapping occurrence of old, scanning
\* from the left, is removed.  old is never empty here.
RECURSIVE RemoveAll(_, _)
RemoveAll(s, old) ==
  LET k == Find(s, old, 1)
  IN  IF k = 0 THEN s
      ELSE SubSeq(s, 1, k - 1) \o RemoveAll(From(s, k + Len(old)), old)

\* str.split('\n'): the pieces between newline characters, empty ones kept.
RECURSIVE Split(_, _)
Split(s, c) ==
  LET k == FindChar(s, c, 1)
  IN  IF k = 0 THEN << s >>
      ELSE << SubSeq(s, 1, k - 1) >> \o Split(From(s, k + 1), c)

\* str.strip(): leading and trailing whitespace removed.
Strip(s) ==
  LET keep == { i \in 1..Len(s) : ~IsSpace(s[i]) }
  IN  IF keep = {} THEN << >>
      ELSE SubSeq(s, CHOOSE i \in keep : \A j \in keep : i <= j,
                     CHOOSE i \in keep : \A j \in keep : i >= j)

\* len(s.split()): the number of maximal runs of non-whitespace characters.
WordCount(s) ==
  Cardinality({ i \in 1..Len(s) :
                  /\ ~IsSpace(s[i])
                  /\ (i = 1 \/ IsSpace(s[i - 1])) })

\* Code point order on str (the order used by sorted()).
RECURSIVE StrLess(_, _)
StrLess(a, b) ==
  IF b = << >> THEN FALSE
  ELSE IF a = << >> THEN TRUE
  ELSE IF a[1] # b[1] THEN Code(a[1]) < Code(b[1])
  ELSE StrLess(Tail(a), Tail(b))

\* Variant: the list is left as it is.
Unsorted(q) == q

\* sorted(q) for a list q of str: q[1] goes before the first element of the
\* sorted rest that is greater than it.
RECURSIVE Sorted(_)
Sorted(q) ==
  IF q = << >> THEN << >>
  ELSE LET rest == Sorted(Tail(q))
           n == Cardinality({ i \in 1..Len(rest) : ~StrLess(q[1], rest[i]) })
       IN  SubSeq(rest, 1, n) \o << q[1] >> \o SubSeq(rest, n + 1, Len(rest))

\* The elements of a set of str as a sorted list.
RECURSIVE SortedStrs(_)
SortedStrs(S) ==
  IF S = {} THEN << >>
  ELSE LET m == CHOOSE x \in S : \A y \in S \ {x} : StrLess(x, y)
       IN  << m >> \o SortedStrs(S \ {m})

\* The decimal digits of a natural number, as str(n) gives them.
RECURSIVE Digits(_)
Digits(n) ==
  IF n < 10 THEN << AsciiOrder[Code("0") + n] >>
  ELSE Digits(n \div 10) \o << AsciiOrder[Code("0") + (n % 10)] >>

(***************************************************************************)
(* Python values and dicts                                                 *)
(***************************************************************************)

\* A Python value: kind is type(v).__name__; n carries an int (or a bool as
\* 0/1), s the characters of a str, items the elements of a list or the
\* ordered [k, v] pairs of a dict.
VNone == [kind |-> "NoneType", n |-> 0, s |-> << >>, items |-> << >>]
VInt(n) == [kind |-> "int", n |-> n, s |-> << >>, items |-> << >>]
VBool(b) == [kind |-> "bool", n |-> IF b THEN 1 ELSE 0, s |-> << >>, items |-> << >>]
VStr(s) == [kind |-> "str", n |-> 0, s |-> s, items |-> << >>]
VList(items) == [kind |-> "list", n |-> 0, s |-> << >>, items |-> items]
VDict(pairs) == [kind |-> "dict", n |-> 0, s |-> << >>, items |-> pairs]

\* key in d
DictHas(d, k) == \E i \in 1..Len(d) : d[i].k = k

\* d.get(k): the value under k, None when absent.
DictGet(d, k) ==
  IF DictHas(d, k) THEN d[CHOOSE i \in 1..Len(d) : d[i].k = k].v ELSE VNone

\* d[k] = v: an existing key keeps its position, a new key goes last.
DictSet(d, k, v) ==
  IF DictHas(d, k)
  THEN [i \in 1..Len(d) |-> IF d[i].k = k THEN [k |-> k, v |-> v] ELSE d[i]]
  ELSE Append(d, [k |-> k, v |-> v])

\* d.keys() as a list and as a set.
DictKeys(d) == [i \in 1..Len(d) |-> d[i].k]
KeySet(d) == { d[i].k : i \in 1..Len(d) }

\* dict(items): a later pair with the same key overwrites the earlier value.
RECURSIVE DictFromItems(_, _)
DictFromItems(acc, items) ==
  IF items = << >> THEN acc
  ELSE DictFromItems(DictSet(acc, items[1].k, items[1].v), Tail(items))

(***************************************************************************)
(* json.loads, on the characters of the model                              *)
(***************************************************************************)

\* The character at position i; "" beyond the end.
At(s, i) == IF i >= 1 /\ i <= Len(s) THEN s[i] ELSE ""

ParseFail == [ok |-> FALSE, val |-> VNone, pos |-> 0]
ParseOk(v, p) == [ok |-> TRUE, val |-> v, pos |-> p]

RECURSIVE SkipWs(_, _)
SkipWs(s, i) == IF IsSpace(At(s, i)) THEN SkipWs(s, i + 1) ELSE i

\* A JSON string: no escapes exist in the model's alphabet; a raw control
\* character (newline) inside a string is a syntax error.
ParseString(s, i) ==
  LET j == FindChar(s, "\"", i + 1)
  IN  IF At(s, i) # "\"" \/ j = 0 THEN ParseFail
      ELSE IF \E m \in (i + 1)..(j - 1) : s[m] = "\n" THEN ParseFail
      ELSE ParseOk(VStr(SubSeq(s, i + 1, j - 1)), j + 1)

RECURSIVE DigitsEnd(_, _)
DigitsEnd(s, i) == IF At(s, i) # "" /\ IsDigit(At(s, i)) THEN DigitsEnd(s, i + 1) ELSE i

RECURSIVE NatOf(_)
NatOf(ds) ==
  IF ds = << >> THEN 0
  ELSE 10 * NatOf(SubSeq(ds, 1, Len(ds) - 1)) + (Code(ds[Len(ds)]) - Code("0"))

\* A JSON number: unsigned integers; a leading zero ends the number.
ParseNumber(s, i) ==
  LET e == IF At(s, i) = "0" THEN i + 1 ELSE DigitsEnd(s, i)
  IN  IF e = i THEN ParseFail ELSE ParseOk(VInt(NatOf(SubSeq(s, i, e - 1))), e)

RECURSIVE ParseValue(_, _)
RECURSIVE ParseMembers(_, _, _)
RECURSIVE ParseElements(_, _, _)

ParseValue(s, i) ==
  LET c == At(s, i)
  IN  IF c = "" THEN ParseFail
      ELSE IF c = "{" THEN
        LET j == SkipWs(s, i + 1)
        IN  IF At(s, j) = "}" THEN ParseOk(VDict(<< >>), j + 1)
            ELSE ParseMembers(s, j, << >>)
      ELSE IF c = "[" THEN
        LET j == SkipWs(s, i + 1)
        IN  IF At(s, j) = "]" THEN ParseOk(VList(<< >>), j + 1)
            ELSE ParseElements(s, j, << >>)
      ELSE IF c = "\"" THEN ParseString(s, i)
      ELSE IF IsDigit(c) THEN ParseNumber(s, i)
      ELSE IF MatchAt(s, <<"n", "u", "l", "l">>, i) THEN ParseOk(VNone, i + 4)
      ELSE IF MatchAt(s, <<"t", "r", "u", "e">>, i) THEN ParseOk(VBool(TRUE), i + 4)
      ELSE IF MatchAt(s, <<"f", "a", "l", "s", "e">>, i) THEN ParseOk(VBool(FALSE), i + 5)
      ELSE ParseFail

\* The members of an object from position i on; acc holds the pairs so far.
\* A repeated key keeps its first position and takes the last value.
ParseMembers(s, i, acc) ==
  LET key == ParseString(s, i)
      j == SkipWs(s, key.pos)
      val == ParseValue(s, SkipWs(s, j + 1))
      m == SkipWs(s, val.pos)
      acc2 == DictSet(acc, key.val.s, val.val)
  IN  IF ~key.ok \/ At(s, j) # ":" THEN ParseFail
      ELSE IF ~val.ok THEN ParseFail
      ELSE IF At(s, m) = "," THEN ParseMembers(s, SkipWs(s, m + 1), acc2)
      ELSE IF At(s, m) = "}" THEN ParseOk(VDict(acc2), m + 1)
      ELSE ParseFail

ParseElements(s, i, acc) ==
  LET val == ParseValue(s, i)
      m == SkipWs(s, val.pos)
      acc2 == Append(acc, val.val)
  IN  IF ~val.ok THEN ParseFail
      ELSE IF At(s, m) = "," THEN ParseElements(s, SkipWs(s, m + 1), acc2)
      ELSE IF At(s, m) = "]" THEN ParseOk(VList(acc2), m + 1)
      ELSE ParseFail

\* json.loads(s): the whole of s must be one value; ok = FALSE stands for
\* the exception json.loads raises.
json_loads(s) ==
  LET r == ParseValue(s, SkipWs(s, 1))
  IN  IF r.ok /\ SkipWs(s, r.pos) = Len(s) + 1 THEN r ELSE ParseFail

(***************************************************************************)
(* ETLPipeline.flatten_dict                                                *)
(***************************************************************************)

Sep == << "_" >>

RECURSIVE flatten_dict(_, _, _)
RECURSIVE FlattenItems(_, _, _)

\* The list `items` built by the loop of flatten_dict over the pairs of d.
FlattenItems(d, parent_key, sep) ==
  IF d = << >> THEN << >>
  ELSE LET k == d[1].k
           v == d[1].v
           new_key == IF parent_key # << >> THEN parent_key \o sep \o k ELSE k
           here == IF v.kind = "dict"
                   THEN flatten_dict(v.items, new_key, sep)
                   ELSE << [k |-> new_key, v |-> v] >>
       IN  here \o FlattenItems(Tail(d), parent_key, sep)

flatten_dict(d, parent_key, sep) ==
  DictFromItems(<< >>, FlattenItems(d, parent_key, sep))

(***************************************************************************)
(* The regular expressions of detect_content_types                         *)
(***************************************************************************)

\* The five html_patterns, each of the form  OPEN[^>]*>.*?CLOSE  compiled
\* with re.DOTALL | re.IGNORECASE, as [open, close] pairs in list order.
html_patterns ==
  << [open |-> << "<", "h", "t", "m", "l" >>, close |-> << "<", "/", "h", "t", "m", "l", ">" >>],
     [open |-> << "<", "!", "D", "O", "C", "T", "Y", "P", "E" >>, close |-> << "<", "/", "h", "t", "m", "l", ">" >>],
     [open |-> << "<", "d", "i", "v" >>, close |-> << "<", "/", "d", "i", "v", ">" >>],
     [open |-> << "<", "p" >>, close |-> << "<", "/", "p", ">" >>],
     [open |-> << "<", "b", "o", "d", "y" >>, close |-> << "<", "/", "b", "o", "d", "y", ">" >>] >>

\* The last position of the match of OPEN[^>]*>.*?CLOSE that starts at i,
\* 0 when there is none: [^>]* runs to the first '>', the lazy .*? to the
\* first CLOSE after it.
TagMatchEnd(s, pat, i) ==
  LET g == FindChar(s, ">", i + Len(pat.open))
      k == FindNoCase(s, pat.close, g + 1)
  IN  IF ~MatchAtNoCase(s, pat.open, i) \/ g = 0 \/ k = 0 THEN 0
      ELSE k + Len(pat.close) - 1

\* re.findall(pattern, content): the non-overlapping matches from the left.
RECURSIVE FindAllTag(_, _, _)
FindAllTag(s, pat, i) ==
  LET p == FindNoCase(s, pat.open, i)
      e == TagMatchEnd(s, pat, p)
  IN  IF p = 0 THEN << >>
      ELSE IF e = 0 THEN FindAllTag(s, pat, p + 1)
      ELSE << SubSeq(s, p, e) >> \o FindAllTag(s, pat, e + 1)

\* set(detected['html']): the matches of all five patterns, as a set.
HtmlSet(content) ==
  UNION { SeqToSet(FindAllTag(content, html_patterns[n], 1)) : n \in 1..Len(html_patterns) }

\* list(set(...)): the elements of the set in an order the hash seed
\* decides; every order is possible.
ListsOfSet(S) ==
  { f \in [1..Cardinality(S) -> S] : \A i, j \in 1..Cardinality(S) : i # j => f[i] # f[j] }

\* The first position >= i that holds a brace, 0 when none.
NextBrace(s, i) ==
  LET hits == { k \in i..Len(s) : s[k] \in {"{", "}"} }
  IN  IF hits = {} THEN 0 ELSE CHOOSE k \in hits : \A m \in hits : k <= m

\* json_pattern  \{(?:[^{}]|(?:\{[^{}]*\}))*\}  after its opening brace:
\* the greedy body takes non-brace characters and one-level {...} groups,
\* then a '}' must follow.  Result: position of that '}', 0 when no match.
RECURSIVE JsonBodyEnd(_, _)
JsonBodyEnd(s, pos) ==
  LET nb == NextBrace(s, pos)
      q == NextBrace(s, nb + 1)
  IN  IF nb = 0 THEN 0
      ELSE IF s[nb] = "}" THEN nb
      ELSE IF q = 0 \/ s[q] = "{" THEN 0
      ELSE JsonBodyEnd(s, q + 1)

\* re.findall(json_pattern, content, re.DOTALL)
RECURSIVE JsonFindAll(_, _)
JsonFindAll(s, i) ==
  LET p == FindChar(s, "{", i)
      e == JsonBodyEnd(s, p + 1)
  IN  IF p = 0 THEN << >>
      ELSE IF e = 0 THEN JsonFindAll(s, p + 1)
      ELSE << SubSeq(s, p, e) >> \o JsonFindAll(s, e + 1)

\* Variant: the containment check is left out.
RECURSIVE JsonValidRepeated(_, _)
JsonValidRepeated(acc, matches) ==
  IF matches = << >> THEN acc
  ELSE JsonValidRepeated(
         IF json_loads(matches[1]).ok THEN Append(acc, matches[1]) ELSE acc,
         Tail(matches))

\* The loop over json_matches: a match joins the list when json.loads
\* accepts it and the list does not hold it yet; a failure is swallowed.
RECURSIVE JsonValidDistinct(_, _)
JsonValidDistinct(acc, matches) ==
  IF matches = << >> THEN acc
  ELSE LET m == matches[1]
       IN  JsonValidDistinct(
             IF json_loads(m).ok /\ m \notin SeqToSet(acc) THEN Append(acc, m) ELSE acc,
             Tail(matches))

JsonList(content) == JsonValidDistinct(<< >>, JsonFindAll(content, 1))

\* The first position >= i whose character is (not) in the class C;
\* Len(s) + 1 when there is none.
FirstIn(s, C, i) ==
  LET hits == { k \in i..Len(s) : s[k] \in C }
  IN  IF hits = {} THEN Len(s) + 1 ELSE CHOOSE k \in hits : \A m \in hits : k <= m
FirstNotIn(s, C, i) ==
  LET hits == { k \in i..Len(s) : s[k] \notin C }
  IN  IF hits = {} THEN Len(s) + 1 ELSE CHOOSE k \in hits : \A m \in hits : k <= m

Str_base64 == << ";", "b", "a", "s", "e", "6", "4", "," >>

\* PREFIX[^;]+;base64,([A-Za-z0-9+/=]+) starting at i: the span of the
\* group as [from, to], to = 0 when there is no match.
DataUriGroup(s, prefix, i) ==
  LET semi == FindChar(s, ";", i + Len(prefix))
      from == semi + Len(Str_base64)
      to == FirstNotIn(s, B64Chars \cup {"="}, from) - 1
  IN  IF /\ MatchAt(s, prefix, i)
         /\ semi > i + Len(prefix)
         /\ MatchAt(s, Str_base64, semi)
         /\ to >= from
      THEN [from |-> from, to |-> to]
      ELSE [from |-> 0, to |-> 0]

RECURSIVE DataUriFindAll(_, _, _)
DataUriFindAll(s, prefix, i) ==
  LET p == Find(s, prefix, i)
      g == DataUriGroup(s, prefix, p)
  IN  IF p = 0 THEN << >>
      ELSE IF g.to = 0 THEN DataUriFindAll(s, prefix, p + 1)
      ELSE << SubSeq(s, g.from, g.to) >> \o DataUriFindAll(s, prefix, g.to + 1)

\* The {64,} of the generic base64 pattern.
Base64MinRun == 64

\* ([A-Za-z0-9+/]{64,}={0,2}): every maximal run of at least 64 base64
\* characters, with up to two '=' after it.
RECURSIVE GenericB64FindAll(_, _)
GenericB64FindAll(s, i) ==
  LET p == FirstIn(s, B64Chars, i)
      e == FirstNotIn(s, B64Chars, p) - 1
      pad == IF At(s, e + 1) # "=" THEN 0 ELSE IF At(s, e + 2) # "=" THEN 1 ELSE 2
  IN  IF p > Len(s) THEN << >>
      ELSE IF e - p + 1 < Base64MinRun THEN GenericB64FindAll(s, e + 1)
      ELSE << SubSeq(s, p, e + pad) >> \o GenericB64FindAll(s, e + pad + 1)

Str_data_image == << "d", "a", "t", "a", ":", "i", "m", "a", "g", "e", "/" >>
Str_data_text == << "d", "a", "t", "a", ":", "t", "e", "x", "t", "/" >>

\* set(detected['base64'])
Base64Set(content) ==
  SeqToSet(DataUriFindAll(content, Str_data_image, 1))
    \cup SeqToSet(DataUriFindAll(content, Str_data_text, 1))
    \cup SeqToSet(GenericB64FindAll(content, 1))

\* remaining_text after the two replace loops.
RECURSIVE RemoveEach(_, _)
RemoveEach(s, spans) ==
  IF spans = << >> THEN s ELSE RemoveEach(RemoveAll(s, spans[1]), Tail(spans))

\* The minimum length of a paragraph is one more than this.
MinTextLen == 5

\* Variant: a line of exactly 5 characters is kept as well.
RECURSIVE ParagraphsFromFive(_)
ParagraphsFromFive(lines) ==
  IF lines = << >> THEN << >>
  ELSE LET p == Strip(lines[1])
       IN  (IF p # << >> /\ Len(p) >= MinTextLen THEN << p >> ELSE << >>)
             \o ParagraphsFromFive(Tail(lines))

\* paragraphs: the stripped lines of the remaining text that are non-blank
\* and longer than 5 characters.
RECURSIVE Paragraphs(_)
Paragraphs(lines) ==
  IF lines = << >> THEN << >>
  ELSE LET p == Strip(lines[1])
       IN  (IF p # << >> /\ Len(p) > MinTextLen THEN << p >> ELSE << >>)
             \o Paragraphs(Tail(lines))

TextList(content, html, json) ==
  Paragraphs(Split(RemoveEach(RemoveEach(content, html), json), "\n"))

\* detect_content_types(content); html and base64 come out in one of the
\* orders list(set(...)) can produce.
DetectedSet(content) ==
  { [html |-> h, json |-> JsonList(content),
     text |-> TextList(content, h, JsonList(content)), base64 |-> b] :
      h \in ListsOfSet(HtmlSet(content)), b \in ListsOfSet(Base64Set(content)) }

(***************************************************************************)
(* The extractors                                                          *)
(***************************************************************************)

\* Field names and string literals of the code.
K_type == << "t", "y", "p", "e" >>
K_source_index == << "s", "o", "u", "r", "c", "e", "_", "i", "n", "d", "e", "x" >>
K_total_items == << "t", "o", "t", "a", "l", "_", "i", "t", "e", "m", "s" >>
K_title == << "t", "i", "t", "l", "e" >>
K_word_count == << "w", "o", "r", "d", "_", "c", "o", "u", "n", "t" >>
K_error == << "e", "r", "r", "o", "r" >>
K_raw == << "r", "a", "w" >>
T_html == << "h", "t", "m", "l" >>
T_json == << "j", "s", "o", "n" >>
T_text == << "t", "e", "x", "t" >>
T_media == << "m", "e", "d", "i", "a" >>
Str_Base64_Media == << "B", "a", "s", "e", "6", "4", " ", "M", "e", "d", "i", "a" >>
Str_Invalid_JSON == << "I", "n", "v", "a", "l", "i", "d", " ", "J", "S", "O", "N" >>
Str_title_open == << "<", "t", "i", "t", "l", "e", ">" >>
Str_title_close == << "<", "/", "t", "i", "t", "l", "e", ">" >>

\* text[:50] and json_string[:100]
TitleMax == 50
RawMax == 100

\* soup.get_text(): the characters outside the tags.
RECURSIVE GetText(_)
GetText(h) ==
  LET p == FindChar(h, "<", 1)
      g == FindChar(h, ">", p + 1)
  IN  IF p = 0 \/ g = 0 THEN h
      ELSE SubSeq(h, 1, p - 1) \o GetText(From(h, g + 1))

\* soup.title.string if soup.title else '': the text of the first title
\* element (a NavigableString), '' when the markup has none.
HtmlTitle(h) ==
  LET p == FindNoCase(h, Str_title_open, 1)
      e == FindNoCase(h, Str_title_close, p + Len(Str_title_open))
  IN  IF p = 0 \/ e = 0 THEN VStr(<< >>)
      ELSE [kind |-> "NavigableString", n |-> 0,
            s |-> SubSeq(h, p + Len(Str_title_open), e - 1), items |-> << >>]

extract_html(html_string) ==
  << [k |-> K_type, v |-> VStr(T_html)],
     [k |-> K_title, v |-> HtmlTitle(html_string)],
     [k |-> K_word_count, v |-> VInt(WordCount(GetText(html_string)))] >>

\* Variant: a type key the object brings along is kept.
extract_jsonKeepsType(json_string) ==
  LET r == json_loads(json_string)
      flattened == flatten_dict(r.val.items, << >>, Sep)
  IN  IF r.ok /\ r.val.kind = "dict"
      THEN IF DictHas(flattened, K_type) THEN flattened
           ELSE DictSet(flattened, K_type, VStr(T_json))
      ELSE << [k |-> K_type, v |-> VStr(T_json)],
              [k |-> K_error, v |-> VStr(Str_Invalid_JSON)],
              [k |-> K_raw, v |-> VStr(Take(json_string, RawMax))] >>

\* A span that does not parse to an object gives the degraded record.
extract_json(json_string) ==
  LET r == json_loads(json_string)
  IN  IF r.ok /\ r.val.kind = "dict"
      THEN DictSet(flatten_dict(r.val.items, << >>, Sep), K_type, VStr(T_json))
      ELSE << [k |-> K_type, v |-> VStr(T_json)],
              [k |-> K_error, v |-> VStr(Str_Invalid_JSON)],
              [k |-> K_raw, v |-> VStr(Take(json_string, RawMax))] >>

extract_text(text) ==
  << [k |-> K_type, v |-> VStr(T_text)],
     [k |-> K_title, v |-> VStr(Take(text, TitleMax))],
     [k |-> K_word_count, v |-> VInt(WordCount(text))] >>

extract_media(base64_data) ==
  << [k |-> K_type, v |-> VStr(T_media)],
     [k |-> K_title, v |-> VStr(Str_Base64_Media)],
     [k |-> K_word_count, v |-> VInt(0)] >>

\* Variant: the numbering starts at 1.
SourceIndexFromOne(tag, idx) == tag \o << "_" >> \o Digits(idx + 1)

\* f"{tag}_{idx}"
SourceIndex(tag, idx) == tag \o Sep \o Digits(idx)

\* The records extract() appends for the detected spans: html, json, text,
\* media, each numbered from 0 within its own list.
extract(detected) ==
  [i \in 1..Len(detected.html) |->
     DictSet(extract_html(detected.html[i]), K_source_index, VStr(SourceIndex(T_html, i - 1)))]
  \o
  [i \in 1..Len(detected.json) |->
     DictSet(extract_json(detected.json[i]), K_source_index, VStr(SourceIndex(T_json, i - 1)))]
  \o
  [i \in 1..Len(detected.text) |->
     DictSet(extract_text(detected.text[i]), K_source_index, VStr(SourceIndex(T_text, i - 1)))]
  \o
  [i \in 1..Len(detected.base64) |->
     DictSet(extract_media(detected.base64[i]), K_source_index, VStr(SourceIndex(T_media, i - 1)))]

(***************************************************************************)
(* ETLPipeline.infer_schema                                                *)
(***************************************************************************)

\* all_keys
AllKeys(data) == UNION { KeySet(data[i]) : i \in 1..Len(data) }

IsNone(v) == v.kind = "NoneType"

\* Variant: nullable looks at missing keys only, not at None values.
SchemaEntryMissingOnly(data, key) ==
  LET having == { i \in 1..Len(data) : DictHas(data[i], key) }
      value_types == { DictGet(data[i], key).kind :
                         i \in { j \in having : DictGet(data[j], key).kind # "NoneType" } }
  IN  [type |-> IF value_types # {} THEN value_types ELSE {"NoneType"},
       nullable |-> Cardinality(having) < Len(data),
       present_in |-> Cardinality(having)]

\* Variant: the kinds of all present values are collected, None included.
SchemaEntryCountsNone(data, key) ==
  LET having == { i \in 1..Len(data) : DictHas(data[i], key) }
      value_types == { DictGet(data[i], key).kind : i \in having }
  IN  [type |-> IF value_types # {} THEN value_types ELSE {"NoneType"},
       nullable |-> \E i \in 1..Len(data) : IsNone(DictGet(data[i], key)),
       present_in |-> Cardinality(having)]

\* self.schema[key] for one key of all_keys.  'type' is a list made from a
\* set; its order carries no meaning and it is kept as a set.
SchemaEntry(data, key) ==
  LET having == { i \in 1..Len(data) : DictHas(data[i], key) }
      value_types == { DictGet(data[i], key).kind :
                         i \in { j \in having : ~IsNone(DictGet(data[j], key)) } }
  IN  [type |-> IF value_types # {} THEN value_types ELSE {"NoneType"},
       nullable |-> \E i \in 1..Len(data) : IsNone(DictGet(data[i], key)),
       present_in |-> Cardinality(having)]

\* self.schema after infer_schema: entries of keys seen now are (re)written,
\* older entries stay.
infer_schema(data, old) ==
  [key \in (DOMAIN old) \cup AllKeys(data) |->
     IF key \in AllKeys(data) THEN SchemaEntry(data, key) ELSE old[key]]

\* The fill loop: a record gets every key of all_keys it lacks, with None.
\* The keys are added in the iteration order of a set; normalize sorts the
\* columns, so the order is taken to be the sorted one.
RECURSIVE FillKeys(_, _)
FillKeys(item, keys) ==
  IF keys = << >> THEN item
  ELSE FillKeys(IF DictHas(item, keys[1]) THEN item ELSE Append(item, [k |-> keys[1], v |-> VNone]),
                Tail(keys))

\* Variant: the fill loop is left out.
FillNothing(data) == data

FillMissing(data) ==
  [i \in 1..Len(data) |-> FillKeys(data[i], SortedStrs(AllKeys(data)))]

(***************************************************************************)
(* ETLPipeline.normalize                                                   *)
(***************************************************************************)

\* Variant: only word_count is stripped.
CleanedKeepsTitle(record) ==
  SelectSeq(record, LAMBDA p : p.k \notin {<< "w", "o", "r", "d", "_", "c", "o", "u", "n", "t" >>})

\* cleaned: the record without word_count and title.
Cleaned(record) ==
  SelectSeq(record, LAMBDA p : p.k \notin {K_word_count, K_title})

\* Appends to acc the elements of keys that acc does not hold yet.
RECURSIVE AddNew(_, _)
AddNew(acc, keys) ==
  IF keys = << >> THEN acc
  ELSE AddNew(IF keys[1] \in SeqToSet(acc) THEN acc ELSE Append(acc, keys[1]), Tail(keys))

\* The column order pandas gives a frame built from a list of dicts, and
\* concat gives the union of frames: order of first appearance.
RECURSIVE FirstSeen(_, _)
FirstSeen(acc, keyLists) ==
  IF keyLists = << >> THEN acc
  ELSE FirstSeen(AddNew(acc, keyLists[1]), Tail(keyLists))

\* pd.DataFrame(type_records): a missing cell is null.
DataFrame(records) ==
  LET cols == FirstSeen(<< >>, [i \in 1..Len(records) |-> DictKeys(records[i])])
  IN  [columns |-> cols,
       rows |-> [i \in 1..Len(records) |->
                   [c \in SeqToSet(cols) |-> DictGet(records[i], c)]]]

EmptyFrame == [columns |-> << >>, rows |-> << >>]

\* type_df[cols_to_keep]
SelectColumns(df, cols) ==
  [columns |-> cols,
   rows |-> [i \in 1..Len(df.rows) |-> [c \in SeqToSet(cols) |-> df.rows[i][c]]]]

RECURSIVE ConcatRows(_, _)
ConcatRows(frames, colset) ==
  IF frames = << >> THEN << >>
  ELSE [i \in 1..Len(frames[1].rows) |->
          [c \in colset |-> IF c \in SeqToSet(frames[1].columns)
                            THEN frames[1].rows[i][c] ELSE VNone]]
       \o ConcatRows(Tail(frames), colset)

\* pd.concat(all_rows, ignore_index=True, sort=False): outer join on columns.
Concat(frames) ==
  LET cols == FirstSeen(<< >>, [i \in 1..Len(frames) |-> frames[i].columns])
  IN  [columns |-> cols, rows |-> ConcatRows(frames, SeqToSet(cols))]

\* Variant: json groups are placed before html groups.
TypeOrderJsonFirst ==
  << << "j", "s", "o", "n" >>, << "h", "t", "m", "l" >>,
     << "t", "e", "x", "t" >>, << "m", "e", "d", "i", "a" >> >>

\* Variant: a fifth group takes the records tagged xml.
TypeOrderWithXml ==
  << << "h", "t", "m", "l" >>, << "j", "s", "o", "n" >>, << "t", "e", "x", "t" >>,
     << "m", "e", "d", "i", "a" >>, << "x", "m", "l" >> >>

\* The order in which normalize visits the type groups.
TypeOrder == << T_html, T_json, T_text, T_media >>

core_fields == << K_type, K_source_index >>
core_order == << K_type, K_source_index, K_total_items >>

\* The frame of one type group: core fields first, then the others.
TypeFrame(type_records) ==
  LET type_df == DataFrame(type_records)
      type_specific == SelectSeq(type_df.columns, LAMBDA c : c \notin SeqToSet(core_fields))
  IN  SelectColumns(type_df, core_fields \o type_specific)

\* all_rows: the frames of the groups that exist, in TypeOrder.
RECURSIVE AllRows(_, _)
AllRows(cleaned_data, types) ==
  IF types = << >> THEN << >>
  ELSE LET type_records ==
             SelectSeq(cleaned_data, LAMBDA r : DictGet(r, K_type) = VStr(types[1]))
       IN  (IF type_records = << >> THEN << >> ELSE << TypeFrame(type_records) >>)
             \o AllRows(cleaned_data, Tail(types))

\* Variant: the number of columns is taken for the number of rows.
TotalItemsOfColumns(df) == Len(df.columns)

\* len(df) as used for the total_items column.
TotalItems(df) == Len(df.rows)

\* normalize(): the returned frame.  A null cell (None or NaN) is VNone; the
\* final to_numeric/astype(int) pass leaves the integer total_items as it
\* is.  Every record reaching a group frame holds type and source_index.
normalize(extracted_data) ==
  LET cleaned_data == [i \in 1..Len(extracted_data) |-> Cleaned(extracted_data[i])]
      all_rows == AllRows(cleaned_data, TypeOrder)
      df == IF all_rows # << >> THEN Concat(all_rows) ELSE EmptyFrame
      withTotal == AddNew(df.columns, << K_total_items >>)
      other_cols == SelectSeq(withTotal, LAMBDA c : c \notin SeqToSet(core_order))
      final_cols == core_order \o Sorted(other_cols)
  IN  IF Len(df.rows) = 0 THEN df
      ELSE [columns |-> final_cols,
            rows |-> [i \in 1..Len(df.rows) |->
                        [c \in SeqToSet(final_cols) |->
                           IF c = K_total_items THEN VInt(TotalItems(df))
                           ELSE df.rows[i][c]]]]

(***************************************************************************)
(* Input documents                                                         *)
(***************************************************************************)

\* The lines input files are made of.
L_a1 == << "{", "\"", "a", "\"", ":", "1", "}" >>
L_a2 == << "{", "\"", "a", "\"", ":", "2", "}" >>
L_hello == << "H", "e", "l", "l", "o", " ", "w", "o", "r", "l", "d", " ", "t", "h", "i", "s", " ", "i", "s", " ", "t", "e", "x", "t" >>
L_bad == << " ", "{", "b", "a", "d", "}", " " >>
L_div == << "<", "d", "i", "v", ">", "<", "P", ">", "x", " ", "y", "<", "/", "P", ">", "<", "/", "d", "i", "v", ">" >>
L_nested == << "{", "\"", "a", "\"", ":", "{", "\"", "b", "\"", ":", "1", "}", ",", "\"", "a", "_", "b", "\"", ":", "2", "}" >>
L_null == << "{", "\"", "a", "\"", ":", "n", "u", "l", "l", ",", "\"", "t", "y", "p", "e", "\"", ":", "\"", "x", "\"", ",", "\"", "t", "i", "t", "l", "e", "\"", ":", "\"", "t", "\"", "}" >>
L_brace == << "{", "\"", "a", "\"", ":", "\"", "}", "\"", "}" >>
\* A data URI whose payload is a run of 64 base64 characters with padding.
L_uri == << "d", "a", "t", "a", ":", "i", "m", "a", "g", "e", "/", "p", ";", "b", "a", "s", "e", "6", "4", "," >> \o [i \in 1..Base64MinRun |-> "A"] \o << "=", "=" >>

Lines ==
  { L_a1, L_a2, L_hello, L_bad, L_div, L_nested, L_null, L_brace, L_uri }

\* A file holds at most MaxLines lines.
MaxLines == 3

Docs == UNION { [1..n -> Lines] : n \in 0..MaxLines }

\* The text of a file: every line is terminated by a newline.
RECURSIVE FileText(_)
FileText(ls) == IF ls = << >> THEN << >> ELSE ls[1] \o << "\n" >> \o FileText(Tail(ls))

(***************************************************************************)
(* ETLPipeline: state and run()                                            *)
(***************************************************************************)

VARIABLES
  fileLines,            \* the lines of the file named by run()'s argument
  fileExists,           \* does input_dir / filename exist
  pc,                   \* the position of run()
  trace,                \* the steps run() has entered, in order
  content,              \* the local `content` of run()
  detected,             \* the local `detected` of extract()
  extracted_data,       \* self.extracted_data
  schema,               \* self.schema
  processing_metadata,  \* self.processing_metadata
  df,                   \* the local `df` of run()
  out,                  \* the three files of output_dir
  raised,               \* the exception run() raised, "none" when none
  returned,             \* did run() return (df, self.schema)
  clock,                \* datetime.now(), as a counter
  fl_pc,                \* flatten_dict on its own: not called, called, returned
  fl_in,                \* the dict it is called with
  fl_out,               \* the dict it returns
  files,                \* the files the caller still has to pass to run()
  active,               \* the pipeline instance whose step is being taken
  other,                \* the state of the second pipeline instance
  request,              \* the body of the POST /process request, as lines
  response              \* the status the web handler answered, 0 while none

vars == << fileLines, fileExists, pc, trace, content, detected, extracted_data,
           schema, processing_metadata, df, out, raised, returned, clock,
           fl_pc, fl_in, fl_out, files, active, other, request, response >>

flVars == << fl_pc, fl_in, fl_out >>

hostVars == << files, active, other, request, response >>

NoDetected == [html |-> << >>, json |-> << >>, text |-> << >>, base64 |-> << >>]

\* The state __init__ leaves; output_dir holds none of the three files yet.
InitPipeline ==
  /\ fileLines = << >>
  /\ fileExists = FALSE
  /\ pc = "idle"
  /\ trace = << >>
  /\ content = << >>
  /\ detected = NoDetected
  /\ extracted_data = << >>
  /\ schema = << >>
  /\ processing_metadata =
       [start_time |-> 0, end_time |-> 0, filename |-> "", total_items |-> 0,
        items_by_type |-> << >>, error |-> ""]
  /\ df = EmptyFrame
  /\ out = [csv |-> [written |-> FALSE, val |-> EmptyFrame],
            schema |-> [written |-> FALSE, val |-> << >>],
            meta |-> [written |-> FALSE, val |-> processing_metadata]]
  /\ raised = "none"
  /\ returned = FALSE
  /\ clock = 1

\* The state of an instance __init__ has just made, with the files its
\* caller is going to pass to run().
FreshInstance(fs) ==
  [files |-> fs, fileLines |-> << >>, fileExists |-> FALSE, pc |-> "idle",
   trace |-> << >>, content |-> << >>, detected |-> NoDetected,
   extracted_data |-> << >>, schema |-> << >>,
   processing_metadata |->
     [start_time |-> 0, end_time |-> 0, filename |-> "", total_items |-> 0,
      items_by_type |-> << >>, error |-> ""],
   df |-> EmptyFrame, raised |-> "none", returned |-> FALSE]

\* One instance, whose run() is called directly: no caller, no second
\* instance at work.
InitHost ==
  /\ files = << >>
  /\ active = 1
  /\ other = FreshInstance(<< >>)
  /\ request = << >>
  /\ response = 0

InitFlOff ==
  /\ fl_pc = "off"
  /\ fl_in = << >>
  /\ fl_out = << >>

Init ==
  /\ InitPipeline
  /\ fl_pc = "off"
  /\ fl_in = << >>
  /\ fl_out = << >>
  /\ InitHost

\* run(filename) is called; the file it names is absent or holds a document.
Start ==
  /\ pc = "idle"
  /\ \E ls \in Docs, ex \in BOOLEAN :
       /\ fileLines' = (IF ex THEN ls ELSE << >>)
       /\ fileExists' = ex
  /\ processing_metadata' =
       [processing_metadata EXCEPT !.start_time = clock, !.filename = "input"]
  /\ clock' = clock + 1
  /\ pc' = "read"
  /\ UNCHANGED << trace, content, detected, extracted_data, schema, df, out,
                  raised, returned >>
  /\ UNCHANGED flVars
  /\ UNCHANGED hostVars

\* Variant: the handler stamps the end time but does not store the error.
HandlerNoError(meta, now, e) == [meta EXCEPT !.end_time = now]

\* The except clause of run(): the error is stored and the exception goes
\* on to the caller.
Handler(meta, now, e) == [meta EXCEPT !.end_time = now, !.error = e]

Fail(e) ==
  /\ processing_metadata' = Handler(processing_metadata, clock, e)
  /\ clock' = clock + 1
  /\ raised' = e
  /\ pc' = "failed"

\* Step 1, read_file: a missing file raises FileNotFoundError.
Read ==
  /\ pc = "read"
  /\ trace' = Append(trace, "read")
  /\ IF fileExists
     THEN /\ content' = FileText(fileLines)
          /\ pc' = "extract"
          /\ UNCHANGED << processing_metadata, clock, raised >>
     ELSE /\ Fail("FileNotFoundError")
          /\ UNCHANGED content
  /\ UNCHANGED << fileLines, fileExists, detected, extracted_data, schema, df,
                  out, returned >>
  /\ UNCHANGED flVars
  /\ UNCHANGED hostVars

\* Step 2, extract.
Extract ==
  /\ pc = "extract"
  /\ trace' = Append(trace, "extract")
  /\ \E det \in DetectedSet(content) :
       /\ detected' = det
       /\ extracted_data' = extracted_data \o extract(det)
  /\ pc' = "track"
  /\ UNCHANGED << fileLines, fileExists, content, schema, processing_metadata,
                  df, out, raised, returned, clock >>
  /\ UNCHANGED flVars
  /\ UNCHANGED hostVars

\* The type tag run() counts an item under: item.get('type', 'unknown').
ItemType(item) == IF DictHas(item, K_type) THEN DictGet(item, K_type) ELSE VStr(<< "unknown" >>)

\* items_by_type after the counting loop over the items.
RECURSIVE CountTypes(_, _)
CountTypes(counts, items) ==
  IF items = << >> THEN counts
  ELSE LET t == ItemType(items[1])
       IN  CountTypes([x \in (DOMAIN counts) \cup {t} |->
                         IF x = t THEN (IF t \in DOMAIN counts THEN counts[t] ELSE 0) + 1
                         ELSE counts[x]],
                      Tail(items))

Track ==
  /\ pc = "track"
  /\ processing_metadata' =
       [processing_metadata EXCEPT
          !.items_by_type = CountTypes(processing_metadata.items_by_type, extracted_data)]
  /\ pc' = "infer"
  /\ UNCHANGED << fileLines, fileExists, trace, content, detected, extracted_data,
                  schema, df, out, raised, returned, clock >>
  /\ UNCHANGED flVars
  /\ UNCHANGED hostVars

\* Step 3, infer_schema.
InferSchema ==
  /\ pc = "infer"
  /\ trace' = Append(trace, "infer_schema")
  /\ schema' = infer_schema(extracted_data, schema)
  /\ extracted_data' = FillMissing(extracted_data)
  /\ pc' = "normalize"
  /\ UNCHANGED << fileLines, fileExists, content, detected, processing_metadata,
                  df, out, raised, returned, clock >>
  /\ UNCHANGED flVars
  /\ UNCHANGED hostVars

\* Step 4, normalize.
Normalize ==
  /\ pc = "normalize"
  /\ trace' = Append(trace, "normalize")
  /\ df' = normalize(extracted_data)
  /\ pc' = "load_csv"
  /\ UNCHANGED << fileLines, fileExists, content, detected, extracted_data, schema,
                  processing_metadata, out, raised, returned, clock >>
  /\ UNCHANGED flVars
  /\ UNCHANGED hostVars

\* Step 5, load: df.to_csv ...
LoadCsv ==
  /\ pc = "load_csv"
  /\ trace' = Append(trace, "load")
  /\ out' = [out EXCEPT !.csv = [written |-> TRUE, val |-> df]]
  /\ pc' = "load_schema"
  /\ UNCHANGED << fileLines, fileExists, content, detected, extracted_data, schema,
                  processing_metadata, df, raised, returned, clock >>
  /\ UNCHANGED flVars
  /\ UNCHANGED hostVars

\* ... then json.dump(self.schema) ...
LoadSchema ==
  /\ pc = "load_schema"
  /\ out' = [out EXCEPT !.schema = [written |-> TRUE, val |-> schema]]
  /\ pc' = "load_meta"
  /\ UNCHANGED << fileLines, fileExists, trace, content, detected, extracted_data,
                  schema, processing_metadata, df, raised, returned, clock >>
  /\ UNCHANGED flVars
  /\ UNCHANGED hostVars

\* ... then end_time and total_items are set and the metadata is dumped.
LoadMeta ==
  /\ pc = "load_meta"
  /\ processing_metadata' =
       [processing_metadata EXCEPT !.end_time = clock, !.total_items = Len(df.rows)]
  /\ clock' = clock + 1
  /\ out' = [out EXCEPT !.meta = [written |-> TRUE, val |-> processing_metadata']]
  /\ pc' = "return"
  /\ UNCHANGED << fileLines, fileExists, trace, content, detected, extracted_data,
                  schema, df, raised, returned >>
  /\ UNCHANGED flVars
  /\ UNCHANGED hostVars

\* return df, self.schema
Return ==
  /\ pc = "return"
  /\ returned' = TRUE
  /\ pc' = "done"
  /\ UNCHANGED << fileLines, fileExists, trace, content, detected, extracted_data,
                  schema, processing_metadata, df, out, raised, clock >>
  /\ UNCHANGED flVars
  /\ UNCHANGED hostVars

\* The steps inside the try block in which an exception other than the
\* missing file can arise (an OSError while a file is written, a
\* MemoryError anywhere), and the name each has in the trace.
StepOf ==
  [extract |-> "extract", infer |-> "infer_schema", normalize |-> "normalize",
   load_csv |-> "load", load_schema |-> "load", load_meta |-> "load"]

\* A step raises before it has changed anything.
Raise ==
  /\ pc \in DOMAIN StepOf
  /\ trace' = (IF pc \in {"load_schema", "load_meta"} THEN trace
               ELSE Append(trace, StepOf[pc]))
  /\ Fail("Exception")
  /\ UNCHANGED << fileLines, fileExists, content, detected, extracted_data, schema,
                  df, out, returned >>
  /\ UNCHANGED flVars
  /\ UNCHANGED hostVars

Next ==
  \/ Start
  \/ Read
  \/ Extract
  \/ Track
  \/ InferSchema
  \/ Normalize
  \/ LoadCsv
  \/ LoadSchema
  \/ LoadMeta
  \/ Return
  \/ Raise

Spec == Init /\ [][Next]_vars

(***************************************************************************)
(* flatten_dict on its own                                                 *)
(***************************************************************************)

pipeVars == << fileLines, fileExists, pc, trace, content, detected, extracted_data,
               schema, processing_metadata, df, out, raised, returned, clock >>

\* A dict has at most MaxFields keys.
MaxFields == 2

FlKeys == { << "a" >>, << "b" >>, << "a", "_", "b" >> }
FlInnerKeys == { << "a" >>, << "b" >> }
FlLeaves == { VInt(1), VStr(<< "x" >>), VList(<< VInt(1), VInt(2) >>) }

\* The dicts of at most MaxFields pairs with distinct keys.
DictsOver(keys, vals) ==
  { d \in UNION { [1..n -> [k : keys, v : vals]] : n \in 0..MaxFields } :
      \A i, j \in 1..Len(d) : i # j => d[i].k # d[j].k }

\* Objects as json.loads returns them: leaves, lists and one level of
\* nested objects.
FlInputs ==
  DictsOver(FlKeys, FlLeaves \cup { VDict(d) : d \in DictsOver(FlInnerKeys, FlLeaves) })

InitFlatten ==
  /\ InitPipeline
  /\ fl_pc = "call"
  /\ fl_in \in FlInputs
  /\ fl_out = << >>
  /\ InitHost

\* flatten_dict(d) with the default parent_key and sep.
Flatten ==
  /\ fl_pc = "call"
  /\ fl_out' = flatten_dict(fl_in, << >>, Sep)
  /\ fl_pc' = "done"
  /\ UNCHANGED << fl_in, pipeVars >>
  /\ UNCHANGED hostVars

NextFlatten == Flatten

SpecFlatten == InitFlatten /\ [][NextFlatten]_vars

(***************************************************************************)
(* Several runs on one instance (SimpleETL)                                *)
(***************************************************************************)

\* The documents of the input folder.
RunDocs == { << L_a1 >>, << L_hello >>, << L_a2, L_hello >>, << L_div >> }

\* The input folder holds at most MaxFiles files.
MaxFiles == 2

FileLists == UNION { [1..n -> RunDocs] : n \in 0..MaxFiles }

\* The caller passes its next file to run() of the instance it holds:
\* process_file inside the loop of process_existing_files, which swallows
\* the exception of a failed run and goes on, or the single call of the web
\* handler.  run() starts anew: its locals are fresh, while the attributes
\* of the instance are what __init__ or the runs before left.
RunNext ==
  /\ pc \in {"idle", "done", "failed"}
  /\ files # << >>
  /\ fileLines' = Head(files)
  /\ fileExists' = TRUE
  /\ files' = Tail(files)
  /\ processing_metadata' =
       [processing_metadata EXCEPT !.start_time = clock, !.filename = "input"]
  /\ clock' = clock + 1
  /\ trace' = << >>
  /\ content' = << >>
  /\ detected' = NoDetected
  /\ df' = EmptyFrame
  /\ raised' = "none"
  /\ returned' = FALSE
  /\ pc' = "read"
  /\ UNCHANGED << extracted_data, schema, out, active, other, request, response >>
  /\ UNCHANGED flVars

\* SimpleETL.__init__ has made the one pipeline and the folder holds files.
InitRuns ==
  /\ InitPipeline
  /\ InitFlOff
  /\ files \in FileLists
  /\ active = 1
  /\ other = FreshInstance(<< >>)
  /\ request = << >>
  /\ response = 0

NextRuns ==
  \/ RunNext
  \/ Read
  \/ Extract
  \/ Track
  \/ InferSchema
  \/ Normalize
  \/ LoadCsv
  \/ LoadSchema
  \/ LoadMeta
  \/ Return
  \/ Raise

SpecRuns == InitRuns /\ [][NextRuns]_vars

(***************************************************************************)
(* Two instances at work at once (one per web request)                     *)
(***************************************************************************)

\* The state of the instance at work, as a record.
Current ==
  [files |-> files, fileLines |-> fileLines, fileExists |-> fileExists, pc |-> pc,
   trace |-> trace, content |-> content, detected |-> detected,
   extracted_data |-> extracted_data, schema |-> schema,
   processing_metadata |-> processing_metadata, df |-> df, raised |-> raised,
   returned |-> returned]

\* Variant: extracted_data is one list that all instances share.
ResumedDataShared(parked, current) == current

\* self.extracted_data of the instance that goes on: the list its own
\* __init__ made.
ResumedData(parked, current) == parked

\* The scheduler lets the other instance take the next steps.  Attributes
\* and locals belong to an instance and its run(); the output folder and
\* the clock belong to the process.
Switch ==
  /\ other' = Current
  /\ active' = 3 - active
  /\ files' = other.files
  /\ fileLines' = other.fileLines
  /\ fileExists' = other.fileExists
  /\ pc' = other.pc
  /\ trace' = other.trace
  /\ content' = other.content
  /\ detected' = other.detected
  /\ extracted_data' = ResumedData(other.extracted_data, extracted_data)
  /\ schema' = other.schema
  /\ processing_metadata' = other.processing_metadata
  /\ df' = other.df
  /\ raised' = other.raised
  /\ returned' = other.returned
  /\ UNCHANGED << out, clock, request, response >>
  /\ UNCHANGED flVars

\* Two requests: each has made its own instance and holds its own file.
InitTwo ==
  /\ InitPipeline
  /\ InitFlOff
  /\ files \in { << d >> : d \in RunDocs }
  /\ active = 1
  /\ other \in { FreshInstance(<< d >>) : d \in RunDocs }
  /\ request = << >>
  /\ response = 0

NextTwo ==
  \/ Switch
  \/ RunNext
  \/ Read
  \/ Extract
  \/ Track
  \/ InferSchema
  \/ Normalize
  \/ LoadCsv
  \/ LoadSchema
  \/ LoadMeta
  \/ Return
  \/ Raise

SpecTwo == InitTwo /\ [][NextTwo]_vars

(***************************************************************************)
(* normalize on its own                                                    *)
(***************************************************************************)

\* A record as extract() makes it from one span of the kind f.
Rec(f) ==
  extract([NoDetected EXCEPT
             ![f] = << [html |-> L_div, json |-> L_a1, text |-> L_hello, base64 |-> L_uri][f] >>])[1]
\* A record with a type tag normalize does not know, and one without any
\* type key.
Rec_xml ==
  << [k |-> K_type, v |-> VStr(<< "x", "m", "l" >>)],
     [k |-> << "b" >>, v |-> VInt(1)],
     [k |-> K_source_index, v |-> VStr(SourceIndex(<< "x", "m", "l" >>, 0))] >>
Rec_untyped ==
  << [k |-> << "b" >>, v |-> VInt(2)],
     [k |-> K_source_index, v |-> VStr(SourceIndex(<< "r", "o", "w" >>, 0))] >>

NzRecords ==
  { Rec(f) : f \in {"html", "json", "text", "base64"} } \cup { Rec_xml, Rec_untyped }

\* self.extracted_data holds at most MaxRecords records.
MaxRecords == 3

RecordLists == UNION { [1..n -> NzRecords] : n \in 0..MaxRecords }

\* normalize() is about to be called on an instance whose extracted_data
\* is some list of records.
InitNormalize ==
  /\ fileLines = << >>
  /\ fileExists = FALSE
  /\ pc = "normalize"
  /\ trace = << >>
  /\ content = << >>
  /\ detected = NoDetected
  /\ extracted_data \in RecordLists
  /\ schema = << >>
  /\ processing_metadata = FreshInstance(<< >>).processing_metadata
  /\ df = EmptyFrame
  /\ out = [csv |-> [written |-> FALSE, val |-> EmptyFrame],
            schema |-> [written |-> FALSE, val |-> << >>],
            meta |-> [written |-> FALSE, val |-> processing_metadata]]
  /\ raised = "none"
  /\ returned = FALSE
  /\ clock = 1
  /\ InitFlOff
  /\ InitHost

NextNormalize == Normalize

SpecNormalize == InitNormalize /\ [][NextNormalize]_vars

(***************************************************************************)
(* The web handler of POST /process                                        *)
(***************************************************************************)

\* A request body holds at most MaxBodyLines lines.
MaxBodyLines == 1

\* request.get_data(as_text=True): no body, blank lines only, or a document.
Bodies == UNION { [1..n -> Lines \cup { << " " >> }] : n \in 0..MaxBodyLines }

\* A request has arrived; inputs/ holds no temporary file and no pipeline
\* has been made.
InitHttp ==
  /\ InitPipeline
  /\ InitFlOff
  /\ files = << >>
  /\ active = 1
  /\ other = FreshInstance(<< >>)
  /\ request \in Bodies
  /\ response = 0

\* `if not content.strip()`: the handler answers 400 at once.
ProcessEmpty ==
  /\ response = 0
  /\ pc = "idle"
  /\ Strip(FileText(request)) = << >>
  /\ response' = 400
  /\ UNCHANGED << files, active, other, request >>
  /\ UNCHANGED pipeVars
  /\ UNCHANGED flVars

\* The body is written to a temporary file in inputs/, a pipeline is made
\* and run(fname) is called.
ProcessRun ==
  /\ response = 0
  /\ pc = "idle"
  /\ Strip(FileText(request)) # << >>
  /\ fileLines' = request
  /\ fileExists' = TRUE
  /\ processing_metadata' =
       [processing_metadata EXCEPT !.start_time = clock, !.filename = "input"]
  /\ clock' = clock + 1
  /\ pc' = "read"
  /\ UNCHANGED << trace, content, detected, extracted_data, schema, df, out,
                  raised, returned >>
  /\ UNCHANGED flVars
  /\ UNCHANGED hostVars

\* run() has returned: the temporary file is removed and the handler
\* answers 200.
ProcessOk ==
  /\ response = 0
  /\ pc = "done"
  /\ fileExists' = FALSE
  /\ response' = 200
  /\ UNCHANGED << fileLines, pc, trace, content, detected, extracted_data, schema,
                  processing_metadata, df, out, raised, returned, clock >>
  /\ UNCHANGED << files, active, other, request >>
  /\ UNCHANGED flVars

\* run() has raised: the except clause of the handler answers 500.
ProcessError ==
  /\ response = 0
  /\ pc = "failed"
  /\ response' = 500
  /\ UNCHANGED << files, active, other, request >>
  /\ UNCHANGED pipeVars
  /\ UNCHANGED flVars

NextHttp ==
  \/ ProcessEmpty
  \/ ProcessRun
  \/ Read
  \/ Extract
  \/ Track
  \/ InferSchema
  \/ Normalize
  \/ LoadCsv
  \/ LoadSchema
  \/ LoadMeta
  \/ Return
  \/ Raise
  \/ ProcessOk
  \/ ProcessError

SpecHttp == InitHttp /\ [][NextHttp]_vars

(***************************************************************************)
(* Properties                                                              *)
(***************************************************************************)

AfterExtract == pc \in {"track", "infer", "normalize", "load_csv", "load_schema", "load_meta", "return", "done"}
AfterInfer == pc \in {"normalize", "load_csv", "load_schema", "load_meta", "return", "done"}
AfterNormalize == pc \in {"load_csv", "load_schema", "load_meta", "return", "done"}

RecordsOfType(t) == SelectSeq(extracted_data, LAMBDA r : DictGet(r, K_type) = VStr(t))
Col_a == << "a" >>
Idx(t, n) == VStr(t \o << "_" >> \o << n >>)

\* C1: the document of the end-to-end example
\*   {"a":1} / {"a":2} / Hello world this is text
\* run on a fresh instance gives the records json_0 (a = 1), json_1 (a = 2)
\* and text_0 and a table of 3 rows with the columns type, source_index,
\* total_items, a in that order, total_items = 3 on every row and a null in
\* column a of the text row.
C1_Document == << L_a1, L_a2, L_hello >>
C1_EndToEndExample ==
  (AfterNormalize /\ fileLines = C1_Document) =>
    /\ Len(extracted_data) = 3
    /\ Len(RecordsOfType(T_json)) = 2
    /\ Len(RecordsOfType(T_text)) = 1
    /\ DictGet(extracted_data[1], K_type) = VStr(T_json)
    /\ DictGet(extracted_data[1], K_source_index) = Idx(T_json, "0")
    /\ DictGet(extracted_data[1], Col_a) = VInt(1)
    /\ DictGet(extracted_data[2], K_type) = VStr(T_json)
    /\ DictGet(extracted_data[2], K_source_index) = Idx(T_json, "1")
    /\ DictGet(extracted_data[2], Col_a) = VInt(2)
    /\ DictGet(extracted_data[3], K_type) = VStr(T_text)
    /\ DictGet(extracted_data[3], K_source_index) = Idx(T_text, "0")
    /\ df.columns = << K_type, K_source_index, K_total_items, Col_a >>
    /\ Len(df.rows) = 3
    /\ \A i \in 1..3 : df.rows[i][K_total_items] = VInt(3)
    /\ df.rows[1][K_source_index] = Idx(T_json, "0") /\ df.rows[1][Col_a] = VInt(1)
    /\ df.rows[2][K_source_index] = Idx(T_json, "1") /\ df.rows[2][Col_a] = VInt(2)
    /\ df.rows[3][K_type] = VStr(T_text) /\ df.rows[3][Col_a] = VNone
C1_Witness == pc = "done" /\ fileLines = C1_Document /\ returned

HasArtifactRecord ==
  \E i \in 1..Len(extracted_data) :
    DictGet(extracted_data[i], K_type) \in {VStr(T_html), VStr(T_text), VStr(T_media)}

PresentIn(key) == Cardinality({ i \in 1..Len(extracted_data) : key \in KeySet(extracted_data[i]) })
HoldsNull(key) ==
  \E i \in 1..Len(extracted_data) :
    key \in KeySet(extracted_data[i]) /\ DictGet(extracted_data[i], key) = VNone

\* C4 as stated: infer_schema over n records gives every field that is a key
\* of k of them present_in = k and nullable = (k < n), also when a record
\* holds an explicit null for a field all n records contain.
C4_NullableIffMissing ==
  [][(pc = "infer" /\ pc' = "normalize") =>
       \A key \in AllKeys(extracted_data) :
         /\ schema'[key].present_in = PresentIn(key)
         /\ schema'[key].nullable = (PresentIn(key) < Len(extracted_data))]_vars

\* C4 amended: present_in = k, and nullable holds exactly when k < n or some
\* record holds null for the field.
C4_NullableIffMissingOrNull ==
  [][(pc = "infer" /\ pc' = "normalize") =>
       \A key \in AllKeys(extracted_data) :
         /\ schema'[key].present_in = PresentIn(key)
         /\ schema'[key].nullable =
              (PresentIn(key) < Len(extracted_data) \/ HoldsNull(key))]_vars
\* A single record with an explicit null: the field is in all n = 1
\* records and the schema calls it nullable.
C4_Witness ==
  /\ pc = "normalize"
  /\ Len(extracted_data) = 1
  /\ DictGet(extracted_data[1], Col_a) = VNone
  /\ Col_a \in DOMAIN schema
  /\ schema[Col_a].present_in = 1
  /\ schema[Col_a].nullable

\* The lines that are valid JSON objects without nested objects.
FlatJsonLines == { L_a1, L_a2, L_null, L_brace }

\* C5: a document of N valid, pairwise different, single-level JSON objects,
\* one per line, gives exactly N json records, and the i-th object gets
\* source_index json_i, i = 0..N-1.
C5_EveryFlatJsonLineExtracted ==
  (/\ AfterExtract
   /\ \A i \in 1..Len(fileLines) : fileLines[i] \in FlatJsonLines
   /\ \A i, j \in 1..Len(fileLines) : i # j => fileLines[i] # fileLines[j]) =>
    /\ detected.json = fileLines
    /\ Len(RecordsOfType(T_json)) = Len(fileLines)
    /\ \A i \in 1..Len(RecordsOfType(T_json)) :
         DictGet(RecordsOfType(T_json)[i], K_source_index) = VStr(T_json \o << "_" >> \o Digits(i - 1))

\* The lines of the file that qualify as text: non-blank after trimming and
\* longer than 5 characters.
QualifyingLines ==
  SelectSeq(fileLines, LAMBDA l : Strip(l) # << >> /\ Len(Strip(l)) > 5)

\* C6: when no html, json or base64 span is detected, the text records are
\* exactly the qualifying lines, one record per line, numbered text_0,
\* text_1, ... in line order; no other line gives a record.
C6_TextRecordsAreQualifyingLines ==
  (/\ AfterExtract
   /\ detected.html = << >> /\ detected.json = << >> /\ detected.base64 = << >>) =>
    /\ Len(extracted_data) = Len(QualifyingLines)
    /\ \A i \in 1..Len(extracted_data) :
         /\ DictGet(extracted_data[i], K_type) = VStr(T_text)
         /\ DictGet(extracted_data[i], K_title) = VStr(Strip(QualifyingLines[i]))
         /\ DictGet(extracted_data[i], K_source_index) = VStr(T_text \o << "_" >> \o Digits(i - 1))
C6_Witness ==
  /\ AfterExtract
  /\ detected.html = << >> /\ detected.json = << >> /\ detected.base64 = << >>
  /\ Len(fileLines) = 3
  /\ Len(extracted_data) = 2
  /\ fileLines[1] = fileLines[3]
  /\ DictGet(extracted_data[1], K_title) = DictGet(extracted_data[2], K_title)

IsFlat(d) == \A i \in 1..Len(d) : d[i].v.kind # "dict"

\* C7: flatten_dict returns a flat object unchanged, puts every value
\* nested in an object under its key path joined with '_', and keeps every
\* list value as the same list under its key.
C7_FlattenKeepsEveryValue ==
  fl_pc = "done" =>
    /\ IsFlat(fl_in) => fl_out = fl_in
    /\ \A i \in 1..Len(fl_in) :
         fl_in[i].v.kind = "dict" =>
           \A j \in 1..Len(fl_in[i].v.items) :
             LET path == fl_in[i].k \o << "_" >> \o fl_in[i].v.items[j].k
             IN  DictHas(fl_out, path) /\ DictGet(fl_out, path) = fl_in[i].v.items[j].v
    /\ \A i \in 1..Len(fl_in) :
         fl_in[i].v.kind = "list" =>
           DictHas(fl_out, fl_in[i].k) /\ DictGet(fl_out, fl_in[i].k) = fl_in[i].v

NothingWritten == ~out.csv.written /\ ~out.schema.written /\ ~out.meta.written

\* C8: when a step of run raises, no later step has run, the error and an
\* end time are in processing_metadata, the exception reaches the caller
\* and nothing is returned; a missing file gives a not-found error after a
\* single read attempt, with no record extracted and no file written.
C8_ErrorStopsRun ==
  pc = "failed" =>
    /\ raised # "none"
    /\ ~returned
    /\ processing_metadata.error = raised
    /\ processing_metadata.end_time > processing_metadata.start_time
    /\ trace # << >>
    /\ LET last == trace[Len(trace)]
       IN  /\ last = "read" =>
                /\ ~fileExists
                /\ raised = "FileNotFoundError"
                /\ trace = << "read" >>
                /\ extracted_data = << >>
           /\ last \in {"read", "extract"} => schema = << >>
           /\ last \in {"read", "extract", "infer_schema"} => df = EmptyFrame
           /\ last \in {"read", "extract", "infer_schema", "normalize"} => NothingWritten
           /\ ~out.meta.written
    /\ ~fileExists => trace = << "read" >>
C8_Witness ==
  /\ pc = "failed"
  /\ ~fileExists
  /\ raised = "FileNotFoundError"
  /\ processing_metadata.error = "FileNotFoundError"

TagAndIndex(r) == << DictGet(r, K_type), DictGet(r, K_source_index) >>
InTypeOrder ==
  RecordsOfType(T_html) \o RecordsOfType(T_json) \o RecordsOfType(T_text) \o RecordsOfType(T_media)

\* C9: the rows of the table are the html records, then the json records,
\* then the text records, then the media records, each group in extraction
\* order; a type without records leaves no trace.
C9_RowsGroupedInTypeOrder ==
  AfterNormalize =>
    /\ Len(df.rows) = Len(InTypeOrder)
    /\ \A i \in 1..Len(df.rows) :
         << df.rows[i][K_type], df.rows[i][K_source_index] >> = TagAndIndex(InTypeOrder[i])
C9_Witness ==
  /\ AfterNormalize
  /\ Len(RecordsOfType(T_html)) = 2
  /\ Len(RecordsOfType(T_json)) = 2
  /\ Len(RecordsOfType(T_text)) = 0
  /\ Len(RecordsOfType(T_media)) = 0
  /\ df.rows[1][K_type] = VStr(T_html)
  /\ df.rows[4][K_source_index] = Idx(T_json, "1")

OwnRecords == extract(detected)
CountOfType(recs, t) ==
  Cardinality({ i \in 1..Len(recs) : DictGet(recs[i], K_type) = t })

\* C11: for every successful run, also the second and later runs on the
\* one shared instance, the metadata file holds total_items = the number of
\* items extracted from that run's file, and items_by_type gives for each
\* type the number of that run's items of that type.  Stated for an
\* instance none of whose runs has failed (no error is in its metadata).
C11_MetadataCountsThisRun ==
  (pc = "done" /\ processing_metadata.error = "") =>
    /\ out.meta.written
    /\ out.meta.val.total_items = Len(OwnRecords)
    /\ \A t \in DOMAIN out.meta.val.items_by_type :
         out.meta.val.items_by_type[t] = CountOfType(OwnRecords, t)
    /\ \A i \in 1..Len(OwnRecords) :
         DictGet(OwnRecords[i], K_type) \in DOMAIN out.meta.val.items_by_type

\* What a run on a fresh instance leaves when it is the only one at work:
\* the records of its own document, their schema and their table.
RunAlone(inst) ==
  inst.pc = "done" =>
    /\ inst.detected \in DetectedSet(FileText(inst.fileLines))
    /\ inst.extracted_data = FillMissing(extract(inst.detected))
    /\ inst.schema = infer_schema(extract(inst.detected), << >>)
    /\ inst.df = normalize(inst.extracted_data)
    /\ inst.returned

\* C12: two runs on two independent instances, their steps interleaved in
\* any order, each end with the extracted_data, the schema and the returned
\* table of that run executed alone.
C12_InterleavedRunsAsAlone == RunAlone(Current) /\ RunAlone(other)
\* Both runs are done, on different documents, and the second began and
\* ended while the first was at work or after it.
C12_Witness ==
  /\ pc = "done"
  /\ other.pc = "done"
  /\ fileLines # other.fileLines
  /\ Len(extracted_data) > 0
  /\ Len(other.extracted_data) > 0
  /\ processing_metadata.start_time < other.processing_metadata.start_time
  /\ other.processing_metadata.start_time < processing_metadata.end_time
  /\ processing_metadata.end_time < other.processing_metadata.end_time

FourTags == { VStr(T_html), VStr(T_json), VStr(T_text), VStr(T_media) }
HasKnownType(r) == DictHas(r, K_type) /\ DictGet(r, K_type) \in FourTags
KeptRecords == SelectSeq(extracted_data, HasKnownType)
RowsLike(r) ==
  Cardinality({ i \in 1..Len(df.rows) :
                  << df.rows[i][K_type], df.rows[i][K_source_index] >> = TagAndIndex(r) })
RecordsLike(r) ==
  Cardinality({ i \in 1..Len(KeptRecords) : TagAndIndex(KeptRecords[i]) = TagAndIndex(r) })

\* C13: when normalize is given a list in which some record's type is not
\* html, json, text or media (or is missing), no error arises, that record
\* is not in the table, every record with one of the four tags is, and
\* total_items is the number of rows kept.
C13_UnknownTypeDropped ==
  pc = "load_csv" =>
    /\ raised = "none"
    /\ Len(df.rows) = Len(KeptRecords)
    /\ \A i \in 1..Len(df.rows) : df.rows[i][K_type] \in FourTags
    /\ \A i \in 1..Len(KeptRecords) : RowsLike(KeptRecords[i]) = RecordsLike(KeptRecords[i])
    /\ \A i \in 1..Len(df.rows) : df.rows[i][K_total_items] = VInt(Len(KeptRecords))
C13_Witness ==
  /\ pc = "load_csv"
  /\ extracted_data = << Rec_xml, Rec("text"), Rec("json") >>
  /\ Len(df.rows) = 2
  /\ df.rows[1][K_type] = VStr(T_json)
  /\ df.rows[2][K_total_items] = VInt(2)
  /\ << "b" >> \notin SeqToSet(df.columns)

DetectedSpans == SeqToSet(detected.html) \cup SeqToSet(detected.json)

\* C14 as stated: a detected html or json span removes only the first
\* occurrence of its string from the residual text; when the same string
\* is a later line of the document again, that line stays and, being longer
\* than 5 characters, is a text span.
C14_OnlyFirstOccurrenceRemoved ==
  pc = "track" =>
    \A i, j \in 1..Len(fileLines) :
      (/\ i < j
       /\ fileLines[i] = fileLines[j]
       /\ fileLines[j] \in DetectedSpans
       /\ Len(Strip(fileLines[j])) > MinTextLen) =>
        Strip(fileLines[j]) \in SeqToSet(detected.text)

\* Braces occur only as the first and the last character.
SingleLevel(l) == \A k \in 2..(Len(l) - 1) : l[k] \notin {"{", "}"}

\* C14 amended: the removal of a span takes every occurrence of its string
\* out of the residual text.  In a document without html spans whose lines
\* are all detected single-level json spans, repeated or not, nothing is
\* left of any line and there is no text span.
C14_RepeatedSpansAllRemoved ==
  (/\ pc = "track"
   /\ detected.html = << >>
   /\ \A i \in 1..Len(fileLines) :
        fileLines[i] \in SeqToSet(detected.json) /\ SingleLevel(fileLines[i])) =>
    detected.text = << >>
C14_Witness ==
  /\ pc = "track"
  /\ fileLines = << L_a1, L_a2, L_a1 >>
  /\ detected.json = << L_a1, L_a2 >>
  /\ detected.text = << >>
  /\ Len(extracted_data) = 2

\* The kind names of the values other than null that the records hold
\* under the key (the fill-forward adds nothing but nulls).
ObservedKinds(key) ==
  { DictGet(extracted_data[i], key).kind :
      i \in { m \in 1..Len(extracted_data) : DictGet(extracted_data[m], key) # VNone } }

\* C15 as stated: for every field of the schema the type set is exactly the
\* set of kind names of the non-null values observed, and the null kind is
\* never listed, also when every observed value of the field is null.
C15_TypeSetNeverListsNull ==
  pc = "normalize" =>
    \A key \in DOMAIN schema :
      /\ schema[key].type = ObservedKinds(key)
      /\ "NoneType" \notin schema[key].type

\* C15 amended: the type set is the set of kind names of the non-null values
\* observed, without the null kind, when there is such a value; for a field
\* whose every observed value is null it is the single entry NoneType.
C15_TypeSetOrNullPlaceholder ==
  pc = "normalize" =>
    \A key \in DOMAIN schema :
      IF ObservedKinds(key) # {}
      THEN schema[key].type = ObservedKinds(key) /\ "NoneType" \notin schema[key].type
      ELSE schema[key].type = {"NoneType"}
C15_Witness ==
  /\ pc = "normalize"
  /\ fileLines = << L_null, L_hello >>
  /\ schema[Col_a].type = {"NoneType"}
  /\ schema[K_word_count].type = {"int"}
  /\ schema[K_title].type = {"str"}

\* C16: after infer_schema every record of extracted_data has the same key
\* set, the set of schema field names, which is the union of the keys of
\* all records; the keys a record lacked are there with null, and no value
\* a record held has changed.
C16_FillForward ==
  [][(pc = "infer" /\ pc' = "normalize") =>
       /\ DOMAIN schema' = AllKeys(extracted_data)
       /\ Len(extracted_data') = Len(extracted_data)
       /\ \A i \in 1..Len(extracted_data) :
            /\ KeySet(extracted_data'[i]) = DOMAIN schema'
            /\ Len(extracted_data'[i]) = Cardinality(KeySet(extracted_data'[i]))
            /\ \A k \in KeySet(extracted_data[i]) :
                 DictGet(extracted_data'[i], k) = DictGet(extracted_data[i], k)
            /\ \A k \in AllKeys(extracted_data) \ KeySet(extracted_data[i]) :
                 DictGet(extracted_data'[i], k) = VNone]_vars
\* A json record and a text record: each got the other's fields as nulls
\* and kept its own.
C16_Witness ==
  /\ pc = "normalize"
  /\ fileLines = << L_a1, L_hello >>
  /\ Len(extracted_data) = 2
  /\ DictGet(extracted_data[1], Col_a) = VInt(1)
  /\ DictHas(extracted_data[1], K_title) /\ DictGet(extracted_data[1], K_title) = VNone
  /\ DictHas(extracted_data[2], Col_a) /\ DictGet(extracted_data[2], Col_a) = VNone
  /\ DictGet(extracted_data[2], K_title) = VStr(L_hello)
  /\ DOMAIN schema = { K_type, K_source_index, K_title, K_word_count, Col_a }

\* The position of the first occurrence of x in the list q.
FirstPos(q, x) == CHOOSE i \in 1..Len(q) : q[i] = x /\ \A j \in 1..(i - 1) : q[j] # x

\* C17: the json span list holds exactly the distinct brace-delimited
\* candidates that parse as JSON, each once, in the order of their first
\* occurrence; a candidate that does not parse is left out and neither
\* detection nor the run is aborted by it.
C17_JsonSpansValidDistinctOrdered ==
  pc = "track" =>
    LET cand == JsonFindAll(content, 1)
        js == detected.json
    IN  /\ raised = "none"
        /\ SeqToSet(js) = { c \in SeqToSet(cand) : json_loads(c).ok }
        /\ \A i, j \in 1..Len(js) : i # j => js[i] # js[j]
        /\ \A i, j \in 1..Len(js) : i < j => FirstPos(cand, js[i]) < FirstPos(cand, js[j])
\* A candidate that does not parse between two copies of one that does:
\* one json span, and the run goes on to its end.
C17_Witness ==
  /\ pc = "done"
  /\ returned
  /\ fileLines = << L_a1, L_bad, L_a1 >>
  /\ JsonFindAll(content, 1) = << L_a1, << "{", "b", "a", "d", "}" >>, L_a1 >>
  /\ detected.json = << L_a1 >>

\* C18: for a fixed document the list of text spans does not depend on the
\* order in which the deduplicated html spans are enumerated when they are
\* removed from the residual text, also when one html span lies inside
\* another.
C18_TextIndependentOfHtmlOrder ==
  pc = "track" =>
    \A h \in ListsOfSet(SeqToSet(detected.html)) :
      TextList(content, h, detected.json) = detected.text

\* C19: after any sequence of runs on one instance the table a run returns
\* holds exactly the records of that run's own document and none of an
\* earlier run, so no two of its rows share a source_index.  Stated for an
\* instance none of whose runs has failed.
C19_TableHoldsOwnRecordsOnly ==
  (pc = "done" /\ processing_metadata.error = "") =>
    LET own == OwnRecords
    IN  /\ Len(df.rows) = Len(own)
        /\ \A i \in 1..Len(df.rows) :
             \E j \in 1..Len(own) :
               << df.rows[i][K_type], df.rows[i][K_source_index] >> = TagAndIndex(own[j])
        /\ \A i, j \in 1..Len(df.rows) :
             i # j => df.rows[i][K_source_index] # df.rows[j][K_source_index]

\* C20: in a run on a fresh instance every record extract makes has a type
\* among html, json, text, media, also when a json object brings a type key
\* of its own; normalize drops nothing, so the table has as many rows as
\* there are records, which is the total number of detected html, json,
\* text and base64 spans.
C20_EverySpanIsARow ==
  pc = "load_csv" =>
    /\ \A i \in 1..Len(extracted_data) :
         DictHas(extracted_data[i], K_type) /\ DictGet(extracted_data[i], K_type) \in FourTags
    /\ Len(df.rows) = Len(extracted_data)
    /\ Len(extracted_data) =
         Len(detected.html) + Len(detected.json) + Len(detected.text) + Len(detected.base64)
\* An object with "type":"x" next to a text line and a data URI.
C20_Witness ==
  /\ pc = "load_csv"
  /\ fileLines = << L_null, L_hello, L_uri >>
  /\ detected.json = << L_null >>
  /\ Len(detected.base64) = 1
  /\ DictGet(extracted_data[1], K_type) = VStr(T_json)
  /\ Len(df.rows) = Len(extracted_data)
  /\ Len(df.rows) = 4

\* The row of the table that stems from the i-th json span, 0 when none.
JsonRow(i) ==
  LET hits == { r \in 1..Len(df.rows) :
                  /\ df.rows[r][K_type] = VStr(T_json)
                  /\ df.rows[r][K_source_index] = VStr(SourceIndex(T_json, i - 1)) }
  IN  IF hits = {} THEN 0 ELSE CHOOSE r \in hits : TRUE

\* C21: for every json object extracted in a run, each field of its
\* flattened form other than type is in the object's row of the table under
\* the same name with its original value, also for objects with keys title,
\* word_count or source_index of their own or with both a nested a.b and a
\* top-level a_b.
C21_JsonFieldsReachTheTable ==
  pc = "load_csv" =>
    \A i \in 1..Len(detected.json) :
      LET fields == FlattenItems(json_loads(detected.json[i]).val.items, << >>, Sep)
          row == JsonRow(i)
      IN  /\ row # 0
          /\ \A j \in 1..Len(fields) :
               fields[j].k # K_type =>
                 /\ fields[j].k \in SeqToSet(df.columns)
                 /\ df.rows[row][fields[j].k] = fields[j].v

\* C22: the processing metadata that load writes at the end of a successful
\* run holds no error entry, also when an earlier run on the same pipeline
\* instance failed.
C22_WrittenMetadataHasNoError ==
  pc = "done" => out.meta.val.error = ""

\* C23: when two runs on independent pipeline instances that share one
\* output directory interleave and both complete, the three output files
\* all come from the same run.
C23_OutputFilesFromOneRun ==
  (pc = "done" /\ other.pc = "done") =>
    \E inst \in { Current, other } :
      /\ out.csv.val = inst.df
      /\ out.schema.val = inst.schema
      /\ out.meta.val = inst.processing_metadata

\* C24: every POST /process request that creates a temporary input file has
\* that file removed by the time the response is returned, whether the run
\* succeeds (200) or raises (500); a request whose body is empty or blank
\* is answered 400 without a file being created or the pipeline being run.
C24_TempFileGoneAtResponse ==
  /\ response # 0 => ~fileExists
  /\ response = 400 => pc = "idle"
  /\ (response # 0 /\ Strip(FileText(request)) = << >>) => response = 400

====
